---- MODULE Spec2Model ----
(***************************************************************************)
(* The OAuth handshake of src/routes/oauth/index.ts: the express router    *)
(* `oauthProviders`.  A handshake is two HTTP requests of one browser,     *)
(* initiation (GET /signin/provider/:provider) and the provider's return   *)
(* (…/:provider/callback), correlated by an express-session cookie.  The   *)
(* last middleware of the router (lines 111-215) consumes the handshake:   *)
(* it destroys the session, normalises the profile and links or creates    *)
(* the user.  It is an async function: each `await` is a point where the   *)
(* handlers of other requests run, so it is modelled one action per await. *)
(*                                                                         *)
(* Requests of one browser are sequential (the redirect orders them);      *)
(* requests of different browsers interleave.  The middlewares mounted     *)
(* with .use on …/:provider match by prefix: they run on the callback path *)
(* as well, before grant and the last middleware.                          *)
(***************************************************************************)
EXTENDS Integers, FiniteSets, Sequences, TLC

\* ------------------------------------------------------------------ bounds
NBrowsers == 2
MaxRequests == 4

Browsers == 1..NBrowsers
\* Requests are numbered b, b + NBrowsers, ...: the k-th request of browser b.
\* The number stands for every value that is fresh per request: the
\* session id genid() draws, the ids the data store assigns, and the tokens
\* the provider hands out.
RequestIds == 1..(NBrowsers * MaxRequests)
Sids == RequestIds

\* ------------------------------------------------------ configuration (env)
\* Provider names a request may carry in :provider.  "acme" has no
\* configuration group at all.
ProviderNames == {"linkedin", "gitlab", "twitter", "acme"}

\* AUTH_PROVIDER_<P>_ENABLED, _CLIENT_ID and _CLIENT_SECRET of the process
\* environment; immutable after startup.
ENV_ENABLED == [p \in ProviderNames |-> p \in {"linkedin", "gitlab"}]
ENV_CLIENT_ID == [p \in ProviderNames |->
    IF p \in {"linkedin", "gitlab", "twitter"} THEN "id-" \o p ELSE ""]
ENV_CLIENT_SECRET == [p \in ProviderNames |->
    IF p \in {"linkedin", "twitter"} THEN "secret-" \o p ELSE ""]

AUTH_CLIENT_URL == "https://client.example"

\* The value of config[provider]: null (present = FALSE) unless the provider
\* has a configuration group whose enable flag is set.
NullConfig == [present |-> FALSE, client_id |-> "", client_secret |-> ""]
PROVIDERSWithoutFlag(p) ==
    IF ENV_CLIENT_ID[p] = "" /\ ENV_CLIENT_SECRET[p] = ""
    THEN NullConfig
    ELSE [present |-> TRUE, client_id |-> ENV_CLIENT_ID[p],
          client_secret |-> ENV_CLIENT_SECRET[p]]
PROVIDERS(p) ==
    IF ~ENV_ENABLED[p]
    THEN NullConfig
    ELSE [present |-> TRUE, client_id |-> ENV_CLIENT_ID[p],
          client_secret |-> ENV_CLIENT_SECRET[p]]

\* The provider configuration middleware: "" when the request may go on,
\* else the error code it sends.
ValidateProviderIdOnly(p) ==
    LET providerConfig == PROVIDERS(p) IN
    IF ~providerConfig.present THEN "disabled-endpoint"
    ELSE IF providerConfig.client_id = "" THEN "invalid-oauth-configuration"
    ELSE ""
ValidateProvider(p) ==
    LET providerConfig == PROVIDERS(p) IN
    IF ~providerConfig.present THEN "disabled-endpoint"
    ELSE IF providerConfig.client_id = "" \/ providerConfig.client_secret = ""
         THEN "invalid-oauth-configuration"
    ELSE ""

\* ------------------------------------------------------------ request data
\* Query strings of an initiation: redirectUrl (a valid URL, or "" when the
\* parameter is absent) and the registration options ("" = none given).
Queries == {[redirectUrl |-> "https://app.example/finish", options |-> "locale=fr"],
            [redirectUrl |-> "", options |-> ""]}
\* The query string of the provider's return: the authorization code and
\* the state, no redirectUrl.
CallbackQuery == [redirectUrl |-> "", options |-> "code=c&state=s"]
\* Query strings whose redirectUrl is no URL.
MalformedQueries == {[redirectUrl |-> "not a url", options |-> ""]}

\* The syntactically valid URLs among the strings of the model.
IsUrl(q) == q \in {"https://app.example/finish", AUTH_CLIENT_URL}

\* redirectToRule.validate(query, ...).value: the given value, valid or not
\* (the error of the validation is not read), or the default client URL.
redirectToRule(q) == IF q = "" THEN AUTH_CLIENT_URL ELSE q

\* queryValidator(registrationOptions, false): "" when the query passes,
\* else the error code it sends; a redirect target that is no URL fails.
queryValidator(query) ==
    IF query.redirectUrl # "" /\ ~IsUrl(query.redirectUrl) THEN "invalid-request" ELSE ""

\* ------------------------------------------------ protocol engine results
ProviderUserIds == {"pu1", "pu2"}
Emails == {"a@x.io"}

NoProfile == [present |-> FALSE, id |-> "", email |-> ""]
NoResponse == [present |-> FALSE, profile |-> NoProfile,
               access_token |-> 0, refresh_token |-> 0]
NoGrant == [provider |-> "", response |-> NoResponse]

\* What grant attaches to session.grant.response when the provider returns:
\* an error or cancellation (a response without a profile), or tokens with
\* the provider's raw profile, whose id or email (not both) may be missing
\* ("").
RawProfiles ==
    {r \in [present : {TRUE}, id : ProviderUserIds \cup {""}, email : Emails \cup {""}] :
        r.id # "" \/ r.email # ""}
ProtocolProfiles == RawProfiles \cup {NoProfile}
\* The response of request n: fresh tokens come with a profile only.
ProtocolResponse(profile, n) ==
    [present |-> TRUE, profile |-> profile,
     access_token |-> IF profile.present THEN n ELSE 0,
     refresh_token |-> IF profile.present THEN 0 - n ELSE 0]

\* normaliseProfile: the canonical profile of a raw one; ok = FALSE when the
\* mandatory id cannot be extracted (the promise rejects).
normaliseProfile(provider, response) ==
    [ok |-> response.profile.id # "",
     id |-> response.profile.id,
     email |-> response.profile.email]

\* ----------------------------------------------------------------- session
EmptySession == [present |-> TRUE, options |-> "", redirectTo |-> "", grant |-> NoGrant]
NoSession == [present |-> FALSE, options |-> "", redirectTo |-> "", grant |-> NoGrant]

NoRes == [kind |-> "none", base |-> "", error |-> "", refreshToken |-> 0, cookie |-> "none"]

\* The locals of a request that has not started.
NoRequest ==
    [route |-> "", id |-> 0, provider |-> "", sid |-> 0, isNew |-> FALSE,
     redirectTo |-> "", options |-> "", grant |-> NoGrant,
     profile |-> [id |-> "", email |-> ""], link |-> 0, user |-> 0, branch |-> "",
     engine |-> FALSE, destroyed |-> FALSE, newUsers |-> 0, newLinks |-> 0,
     updated |-> 0, loaded |-> NoSession, handler |-> FALSE]

\* No request was answered by the latest step.
NoLast == [browser |-> 0, rq |-> NoRequest, res |-> NoRes]

VARIABLES
    store,      \* SessionStore: session id -> session data (present or not)
    users,      \* the user store: records [id, email, options]
    links,      \* auth.user_providers: records [id, userId, providerId, ...]
    issued,     \* application refresh tokens issued: the users they are for
    reqs,       \* per browser: requests sent so far
    jar,        \* per browser: the session cookie it presents (0 = none)
    pc,         \* per browser: position of its request in flight ("idle" = none)
    rq,         \* per browser: req, res.locals and handler locals of that request
    last,       \* the request the latest step has answered, with its response
    consumed    \* the sessions the last middleware has called destroy on, by
                \* id, as they were stored at that moment

vars == <<store, users, links, issued, reqs, jar, pc, rq, last, consumed>>


\* ------------------------------------------------------- express-session
\* session({saveUninitialized: true, store, genid, name}) of the router.
saveUninitialized == TRUE

\* The session middleware on an incoming request: the stored session of the
\* cookie when there is one, else a new session under a fresh id (genid).
HasStored(b) == jar[b] \in DOMAIN store
RequestId(b) == b + NBrowsers * reqs[b]
ReqSessionID(b) == IF HasStored(b) THEN jar[b] ELSE RequestId(b)
ReqSessionOfAny(b) ==
    IF DOMAIN store # {} THEN store[CHOOSE s \in DOMAIN store : TRUE] ELSE EmptySession
ReqSession(b) == IF HasStored(b) THEN store[jar[b]] ELSE EmptySession

\* What express-session does when a response ends while req.session is
\* alive: a new session is stored when it was modified or, with
\* saveUninitialized, even when it was not; a loaded one when modified.
StoreAtEndOnlyModified(st, sid, sess, isNew, modified) ==
    IF modified
    THEN [s \in DOMAIN st \cup {sid} |-> IF s = sid THEN sess ELSE st[s]]
    ELSE st
StoreAtEnd(st, sid, sess, isNew, modified) ==
    IF modified \/ (isNew /\ saveUninitialized)
    THEN [s \in DOMAIN st \cup {sid} |-> IF s = sid THEN sess ELSE st[s]]
    ELSE st
CookieAtEnd(isNew, modified) ==
    IF isNew /\ (modified \/ saveUninitialized) THEN "set" ELSE "none"

\* SessionStore.destroy(sid): removes the entry; unknown ids are a no-op.
destroy(st, sid) == [s \in DOMAIN st \ {sid} |-> st[s]]

\* sendError(res, code, {redirectTo}, true): a redirect to redirectTo that
\* carries the error code.
sendError(code, redirectTo, cookie) ==
    [kind |-> "redirect", base |-> redirectTo, error |-> code,
     refreshToken |-> 0, cookie |-> cookie]

\* The request of browser b ends with response r: the browser may send its
\* next request.
Answer(b, r, response) ==
    /\ last' = [browser |-> b, rq |-> r, res |-> response]
    /\ rq' = [rq EXCEPT ![b] = NoRequest]
    /\ pc' = [pc EXCEPT ![b] = "idle"]

\* The request of browser b goes on to its next await.
Continue(b, r, at) ==
    /\ last' = NoLast
    /\ rq' = [rq EXCEPT ![b] = r]
    /\ pc' = [pc EXCEPT ![b] = at]

\* The user store when the service starts: a user who signed up with an
\* email and password, and a user linked to a provider identity by an
\* earlier handshake.
InitialUsers == {[id |-> 100, email |-> "a@x.io", options |-> ""],
                 [id |-> 101, email |-> "b@x.io", options |-> ""]}
InitialLinks == {[id |-> 101, userId |-> 101, providerId |-> "linkedin",
                  providerUserId |-> "pu1", accessToken |-> 0, refreshToken |-> 0]}

TypeOK ==
    /\ \A b \in Browsers : reqs[b] \in 0..MaxRequests
    /\ \A b \in Browsers : jar[b] \in RequestIds \cup {0}
    /\ DOMAIN store \subseteq Sids
    /\ \A s \in DOMAIN store : store[s].present

Init ==
    /\ store = [s \in {} |-> NoSession]
    /\ users = InitialUsers
    /\ links = InitialLinks
    /\ issued = {}
    /\ reqs = [b \in Browsers |-> 0]
    /\ jar = [b \in Browsers |-> 0]
    /\ pc = [b \in Browsers |-> "idle"]
    /\ rq = [b \in Browsers |-> NoRequest]
    /\ last = NoLast
    /\ consumed = [s \in {} |-> NoSession]

\* A browser sends its next request once the previous one has been answered.
RECURSIVE Total(_, _)
Total(f, n) == IF n = 0 THEN 0 ELSE f[n] + Total(f, n - 1)
\* (Browsers are numbered in the order of their first requests.)
CanSend(b) ==
    /\ pc[b] = "idle"
    /\ Total(reqs, NBrowsers) < MaxRequests
    /\ IF b = 1 THEN TRUE ELSE reqs[b - 1] > 0

Received(b) == reqs' = [reqs EXCEPT ![b] = @ + 1]

\* ------------------------------------------------------------- initiation
\* GET /signin/provider/:provider?<query>: the session, redirectTo,
\* provider configuration and query validation middlewares, in the order of
\* their registration, up to session.save.
Initiate(b, p, query) ==
    /\ CanSend(b)
    /\ Received(b)
    /\ LET sid == ReqSessionID(b)
           isNew == ~HasStored(b)
           sess == ReqSession(b)
           redirectTo == redirectToRule(query.redirectUrl)
           code == IF ValidateProvider(p) # "" THEN ValidateProvider(p)
                   ELSE queryValidator(query)
           req == [NoRequest EXCEPT !.route = "initiate", !.id = RequestId(b),
                                    !.provider = p, !.sid = sid, !.isNew = isNew,
                                    !.redirectTo = redirectTo, !.grant = sess.grant]
       IN IF code # ""
          THEN /\ Answer(b, req, sendError(code, redirectTo, CookieAtEnd(isNew, FALSE)))
               /\ store' = StoreAtEnd(store, sid, sess, isNew, FALSE)
               /\ jar' = [jar EXCEPT ![b] =
                     IF CookieAtEnd(isNew, FALSE) = "set" THEN sid ELSE @]
          ELSE /\ Continue(b, [req EXCEPT !.options = query.options], "save")
               /\ UNCHANGED <<store, jar>>
    /\ UNCHANGED <<users, links, issued, consumed>>

\* session.save(next) completes in an initiation.  Saved: grant starts the
\* authorization (session.grant = {provider}) and redirects to the
\* provider.  Failed: next(err) ends the request in the error handler.
SaveSession(b, ok) ==
    /\ pc[b] = "save"
    /\ rq[b].route = "initiate"
    /\ LET r == rq[b]
           withGrant == [present |-> TRUE, options |-> r.options, redirectTo |-> r.redirectTo,
                         grant |-> [provider |-> r.provider, response |-> NoResponse]]
       IN IF ok
          THEN /\ store' = StoreAtEnd(store, r.sid, withGrant, r.isNew, TRUE)
               /\ Answer(b, [r EXCEPT !.grant = withGrant.grant, !.engine = TRUE],
                         [kind |-> "redirect", base |-> "provider:" \o r.provider,
                          error |-> "", refreshToken |-> 0,
                          cookie |-> CookieAtEnd(r.isNew, TRUE)])
               /\ jar' = [jar EXCEPT ![b] = r.sid]
          ELSE /\ Answer(b, r, [NoRes EXCEPT !.kind = "http-error"])
               /\ UNCHANGED <<store, jar>>
    /\ UNCHANGED <<users, links, issued, reqs, consumed>>

\* --------------------------------------------------------------- callback
\* The request browser b sends next, as the session middleware hands it on:
\* `loaded` is the session as the store returned it (none for a new one).
Incoming(b, route) ==
    [NoRequest EXCEPT !.route = route, !.id = RequestId(b),
                      !.sid = ReqSessionID(b), !.isNew = ~HasStored(b),
                      !.loaded = IF HasStored(b) THEN ReqSession(b) ELSE NoSession]

\* The locals of request r entering the last middleware with session `sess`:
\* const { grant, options, redirectTo = ENV.AUTH_CLIENT_URL } = { ...session }
SnapshotWithoutDefault(r, sess) ==
    [r EXCEPT !.grant = sess.grant,
              !.provider = sess.grant.provider,
              !.options = sess.options,
              !.redirectTo = sess.redirectTo]
Snapshot(r, sess) ==
    [r EXCEPT !.grant = sess.grant,
              !.provider = sess.grant.provider,
              !.options = sess.options,
              !.redirectTo = IF sess.redirectTo = "" THEN AUTH_CLIENT_URL
                             ELSE sess.redirectTo]

\* The provider sends the browser back to …/:provider/callback while its
\* handshake session is pending.  The path begins with …/:provider, so the
\* middlewares mounted there with .use run on it as on an initiation:
\* redirectTo, provider configuration and query validation, up to
\* session.save.
Callback(b) ==
    /\ CanSend(b)
    /\ Received(b)
    /\ HasStored(b)
    /\ ReqSession(b).grant.provider # ""
    /\ LET p == ReqSession(b).grant.provider
           redirectTo == redirectToRule(CallbackQuery.redirectUrl)
           code == IF ValidateProvider(p) # "" THEN ValidateProvider(p)
                   ELSE queryValidator(CallbackQuery)
           req == [Incoming(b, "callback") EXCEPT
                      !.provider = p, !.redirectTo = redirectTo,
                      !.grant = ReqSession(b).grant]
       IN IF code # ""
          THEN Answer(b, req, sendError(code, redirectTo, "none"))
          ELSE Continue(b, [req EXCEPT !.options = CallbackQuery.options], "save")
    /\ UNCHANGED <<store, users, links, issued, jar, consumed>>

\* session.save(next) completes in a callback: the session now holds the
\* query and the redirectTo of the callback request.  Saved: grant
\* completes the exchange, attaches the result (with the provider's
\* `profile`) to session.grant.response and calls next(); the last
\* middleware takes its snapshot and calls session.destroy.  Failed:
\* next(err) ends the request.
SaveCallback(b, ok, profile) ==
    /\ pc[b] = "save"
    /\ rq[b].route = "callback"
    /\ LET r == rq[b]
           saved == [present |-> TRUE, options |-> r.options,
                     redirectTo |-> r.redirectTo, grant |-> r.grant]
           sess == [saved EXCEPT !.grant.response = ProtocolResponse(profile, r.id)]
       IN IF ok
          THEN /\ store' = StoreAtEnd(store, r.sid, saved, r.isNew, TRUE)
               /\ Continue(b, Snapshot([r EXCEPT !.engine = TRUE, !.handler = TRUE], sess),
                           "destroy")
          ELSE /\ Answer(b, r, [NoRes EXCEPT !.kind = "http-error"])
               /\ UNCHANGED store
    /\ UNCHANGED <<users, links, issued, reqs, jar, consumed>>

\* A request on a path outside …/:provider: no earlier middleware answers
\* it and it falls through to the last middleware with the session as
\* stored (or a new, empty one).
Other(b) ==
    /\ CanSend(b)
    /\ Received(b)
    /\ Continue(b, Snapshot([Incoming(b, "other") EXCEPT !.handler = TRUE],
                             ReqSession(b)), "destroy")
    /\ UNCHANGED <<store, users, links, issued, jar, consumed>>

\* The outcome of the synchronous checks that follow the destroy
\* (lines 123-131): "" when the handler goes on to normaliseProfile.
CheckGrantNoProfileCheck(grant) ==
    IF ~grant.response.present \/ grant.provider = "" THEN "internal-error" ELSE ""
CheckGrant(grant) ==
    IF ~grant.response.present \/ grant.provider = "" THEN "internal-error"
    ELSE IF ~grant.response.profile.present THEN "internal-error"
    ELSE ""

\* The first await of the last middleware completes, leaving the session
\* store as `after`; res.clearCookie; then the response and profile checks.
AfterDestroyRejecting(b, after) ==
    /\ pc[b] = "destroy"
    /\ store' = after
    /\ consumed' = [s \in DOMAIN consumed \cup {rq[b].sid} |->
                      IF s # rq[b].sid THEN consumed[s]
                      ELSE IF s \in DOMAIN store THEN store[s] ELSE EmptySession]
    /\ LET r == [rq[b] EXCEPT !.destroyed = TRUE]
       IN IF rq[b].sid \in DOMAIN after
          THEN Answer(b, r, [NoRes EXCEPT !.kind = "unhandled"])
          ELSE IF CheckGrant(r.grant) # ""
          THEN Answer(b, r, sendError(CheckGrant(r.grant), r.redirectTo, "cleared"))
          ELSE Continue(b, r, "normalise")
    /\ UNCHANGED <<users, links, issued, reqs, jar>>
AfterDestroy(b, after) ==
    /\ pc[b] = "destroy"
    /\ store' = after
    /\ consumed' = [s \in DOMAIN consumed \cup {rq[b].sid} |->
                      IF s # rq[b].sid THEN consumed[s]
                      ELSE IF s \in DOMAIN store THEN store[s] ELSE EmptySession]
    /\ LET r == [rq[b] EXCEPT !.destroyed = TRUE]
       IN IF CheckGrant(r.grant) # ""
          THEN Answer(b, r, sendError(CheckGrant(r.grant), r.redirectTo, "cleared"))
          ELSE Continue(b, r, "normalise")
    /\ UNCHANGED <<users, links, issued, reqs, jar>>

\* await new Promise((resolve) => session.destroy(() => {...; resolve(null)}))
DestroyNotCalled(b) == AfterDestroy(b, store)
Destroy(b) == AfterDestroy(b, destroy(store, rq[b].sid))
\* The store fails to destroy the session and passes an error to the
\* callback, which does not read it.
DestroyFailed(b) == AfterDestroy(b, store)

\* await normaliseProfile(provider, response).  A rejection is caught
\* nowhere: the handler ends without sending a response.
Normalise(b) ==
    /\ pc[b] = "normalise"
    /\ LET profile == normaliseProfile(rq[b].provider, rq[b].grant.response)
       IN IF profile.ok
          THEN Continue(b, [rq[b] EXCEPT !.profile =
                              [id |-> profile.id, email |-> profile.email]], "lookup")
          ELSE Answer(b, rq[b], [NoRes EXCEPT !.kind = "unhandled", !.cookie = "cleared"])
    /\ UNCHANGED <<store, users, links, issued, reqs, jar, consumed>>

\* gqlSdk.authUserProviders({provider, providerUserId})
authUserProviders(provider, providerUserId) ==
    {l \in links : l.providerId = provider /\ l.providerUserId = providerUserId}

\* getUserByEmail(email): the users of that email; none for an absent email.
getUserByEmail(email) == {u \in users : email # "" /\ u.email = email}

\* The link lookup answers: the first link found decides the user.
LookupLinkEmailFirst(b) ==
    /\ pc[b] = "lookup"
    /\ LET found == authUserProviders(rq[b].provider, rq[b].profile.id)
           byEmail == getUserByEmail(rq[b].profile.email)
       IN IF byEmail # {}
          THEN \E u \in byEmail :
                 Continue(b, [rq[b] EXCEPT !.user = u.id, !.branch = "email"], "insertLink")
          ELSE IF found # {}
          THEN \E l \in found :
                 Continue(b, [rq[b] EXCEPT !.link = l.id, !.user = l.userId,
                                           !.branch = "link"], "update")
          ELSE Continue(b, rq[b], "byEmail")
    /\ UNCHANGED <<store, users, links, issued, reqs, jar, consumed>>
LookupLink(b) ==
    /\ pc[b] = "lookup"
    /\ LET found == authUserProviders(rq[b].provider, rq[b].profile.id)
       IN IF found # {}
          THEN \E l \in found :
                 Continue(b, [rq[b] EXCEPT !.link = l.id, !.user = l.userId,
                                           !.branch = "link"], "update")
          ELSE Continue(b, rq[b], "byEmail")
    /\ UNCHANGED <<store, users, links, issued, reqs, jar, consumed>>

\* gqlSdk.updateAuthUserprovider({id, authUserProvider: {accessToken, refreshToken}})
updateAuthUserprovider(id, accessToken, refreshToken) ==
    {IF l.id = id
     THEN [l EXCEPT !.accessToken = accessToken, !.refreshToken = refreshToken]
     ELSE l : l \in links}

UpdateLinkSkipped(b) ==
    /\ pc[b] = "update"
    /\ Continue(b, [rq[b] EXCEPT !.updated = rq[b].link], "token")
    /\ UNCHANGED <<store, users, links, issued, reqs, jar, consumed>>
\* The update of the link found, with the tokens of the response.
UpdateLink(b) ==
    /\ pc[b] = "update"
    /\ links' = updateAuthUserprovider(rq[b].link, rq[b].grant.response.access_token,
                                       rq[b].grant.response.refresh_token)
    /\ Continue(b, [rq[b] EXCEPT !.updated = rq[b].link], "token")
    /\ UNCHANGED <<store, users, issued, reqs, jar, consumed>>

\* getUserByEmail(profile.email) answers.
GetUserByEmail(b) ==
    /\ pc[b] = "byEmail"
    /\ LET found == getUserByEmail(rq[b].profile.email)
       IN IF found # {}
          THEN \E u \in found :
                 Continue(b, [rq[b] EXCEPT !.user = u.id, !.branch = "email"], "insertLink")
          ELSE Continue(b, [rq[b] EXCEPT !.branch = "create"], "insertUser")
    /\ UNCHANGED <<store, users, links, issued, reqs, jar, consumed>>

\* The link row of a callback for user `userId`.
NewLink(id, userId, r) ==
    [id |-> id, userId |-> userId, providerId |-> r.provider,
     providerUserId |-> r.profile.id,
     accessToken |-> r.grant.response.access_token,
     refreshToken |-> r.grant.response.refresh_token]

\* transformOauthProfile(profile, options): the user input of a new user.
transformOauthProfile(profile, options) == [email |-> profile.email, options |-> options]

\* The final redirect when no user was resolved (lines 208-214):
\* 'error' || 'invalid-request' is 'error'.
FinalError(redirectTo) ==
    [kind |-> "redirect", base |-> redirectTo, error |-> "error",
     refreshToken |-> 0, cookie |-> "cleared"]

\* gqlSdk.insertUserProviderToUser answers: the inserted row, or null.
InsertLinkFallsThrough(b, ok) ==
    /\ pc[b] = "insertLink"
    /\ IF ok
       THEN /\ links' = links \cup {NewLink(rq[b].id, rq[b].user, rq[b])}
            /\ Continue(b, [rq[b] EXCEPT !.newLinks = @ + 1], "token")
       ELSE /\ Answer(b, rq[b], FinalError(rq[b].redirectTo))
            /\ UNCHANGED links
    /\ UNCHANGED <<store, users, issued, reqs, jar, consumed>>
InsertLinkIgnoresNull(b, ok) ==
    /\ pc[b] = "insertLink"
    /\ IF ok
       THEN /\ links' = links \cup {NewLink(rq[b].id, rq[b].user, rq[b])}
            /\ Continue(b, [rq[b] EXCEPT !.newLinks = @ + 1], "token")
       ELSE /\ Continue(b, rq[b], "token")
            /\ UNCHANGED links
    /\ UNCHANGED <<store, users, issued, reqs, jar, consumed>>
InsertLink(b, ok) ==
    /\ pc[b] = "insertLink"
    /\ IF ok
       THEN /\ links' = links \cup {NewLink(rq[b].id, rq[b].user, rq[b])}
            /\ Continue(b, [rq[b] EXCEPT !.newLinks = @ + 1], "token")
       ELSE /\ Answer(b, rq[b], sendError("internal-error", rq[b].redirectTo, "cleared"))
            /\ UNCHANGED links
    /\ UNCHANGED <<store, users, issued, reqs, jar, consumed>>


\* insertUser({...userInput, userProviders: {data: [link]}}) answers: the
\* user created together with its first link, or null.
InsertUser(b, ok) ==
    /\ pc[b] = "insertUser"
    /\ IF ok
       THEN LET input == transformOauthProfile(rq[b].profile, rq[b].options)
            IN /\ users' = users \cup {[id |-> rq[b].id, email |-> input.email,
                                        options |-> input.options]}
               /\ links' = links \cup {NewLink(rq[b].id, rq[b].id, rq[b])}
               /\ Continue(b, [rq[b] EXCEPT !.user = rq[b].id, !.newUsers = @ + 1,
                                            !.newLinks = @ + 1], "token")
       ELSE /\ Answer(b, rq[b], FinalError(rq[b].redirectTo))
            /\ UNCHANGED <<users, links>>
    /\ UNCHANGED <<store, issued, reqs, jar, consumed>>

\* getNewRefreshToken(user.id) answers; res.redirect(redirectTo?refreshToken=…)
NewRefreshTokenForLinkId(b) ==
    /\ pc[b] = "token"
    /\ LET id == IF rq[b].link # 0 THEN rq[b].link ELSE rq[b].user
       IN /\ issued' = issued \cup {id}
          /\ Answer(b, rq[b], [kind |-> "redirect", base |-> rq[b].redirectTo,
                               error |-> "", refreshToken |-> id, cookie |-> "cleared"])
    /\ UNCHANGED <<store, users, links, reqs, jar, consumed>>
NewRefreshToken(b) ==
    /\ pc[b] = "token"
    /\ issued' = issued \cup {rq[b].user}
    /\ Answer(b, rq[b], [kind |-> "redirect", base |-> rq[b].redirectTo, error |-> "",
                         refreshToken |-> rq[b].user, cookie |-> "cleared"])
    /\ UNCHANGED <<store, users, links, reqs, jar, consumed>>

\* The steps of the requests in flight, and the requests that are not
\* initiations.
Handle ==
    \/ \E b \in Browsers, ok \in BOOLEAN : SaveSession(b, ok)
    \/ \E b \in Browsers : Callback(b)
    \/ \E b \in Browsers, ok \in BOOLEAN, profile \in ProtocolProfiles :
          SaveCallback(b, ok, profile)
    \/ \E b \in Browsers : Other(b)
    \/ \E b \in Browsers : Destroy(b)
    \/ \E b \in Browsers : Normalise(b)
    \/ \E b \in Browsers : LookupLink(b)
    \/ \E b \in Browsers : UpdateLink(b)
    \/ \E b \in Browsers : GetUserByEmail(b)
    \/ \E b \in Browsers, ok \in BOOLEAN : InsertLink(b, ok)
    \/ \E b \in Browsers, ok \in BOOLEAN : InsertUser(b, ok)
    \/ \E b \in Browsers : NewRefreshToken(b)

\* Browsers whose initiations carry well-formed queries.
Next ==
    \/ \E b \in Browsers, p \in ProviderNames, query \in Queries : Initiate(b, p, query)
    \/ Handle

Spec == Init /\ [][Next]_vars

\* Browsers whose initiations may also carry a redirect target that is no URL.
NextMalformed ==
    \/ \E b \in Browsers, p \in ProviderNames, query \in Queries \cup MalformedQueries :
          Initiate(b, p, query)
    \/ Handle

SpecMalformed == Init /\ [][NextMalformed]_vars

\* Handshakes with the configured provider over a session store whose
\* destroy may fail.
NextDestroyFails ==
    \/ \E b \in Browsers, query \in Queries : Initiate(b, "linkedin", query)
    \/ Handle
    \/ \E b \in Browsers : DestroyFailed(b)

SpecDestroyFails == Init /\ [][NextDestroyFails]_vars

\* ------------------------------------------------------------ properties
\* The latest step answered a request / a request that had entered the
\* last middleware (rq.handler).
Answered == last.browser # 0
HandlerAnswered == Answered /\ last.rq.handler
InitiateAnswered == Answered /\ last.rq.route = "initiate"
\* The outcomes of the callback state machine.
Linked == last.res.kind = "redirect" /\ last.res.refreshToken # 0
FailedWith(code) ==
    /\ last.res.kind = "redirect"
    /\ last.res.error = code
    /\ last.res.refreshToken = 0
    /\ last.res.base = last.rq.redirectTo

C2_DisabledNoCookie ==
    (InitiateAnswered /\ ~PROVIDERS(last.rq.provider).present) =>
        /\ FailedWith("disabled-endpoint")
        /\ last.res.cookie # "set"
        /\ last.rq.sid \notin DOMAIN store

\* C3: an initiation for an enabled provider whose client id or client
\* secret is missing ends in a redirect with code
\* invalid-oauth-configuration, and such a request never reaches
\* session.save or the protocol engine.
MissingCredentials(p) ==
    /\ ENV_ENABLED[p]
    /\ ENV_CLIENT_ID[p] = "" \/ ENV_CLIENT_SECRET[p] = ""
C3_InvalidConfiguration ==
    /\ (InitiateAnswered /\ MissingCredentials(last.rq.provider)) =>
          /\ FailedWith("invalid-oauth-configuration")
          /\ ~last.rq.engine
    /\ \A b \in Browsers :
          (pc[b] = "save" /\ rq[b].route = "initiate") =>
              ~MissingCredentials(rq[b].provider)

C3_Witness ==
    /\ InitiateAnswered
    /\ last.rq.provider = "gitlab"
    /\ MissingCredentials("gitlab")
    /\ last.res.error = "invalid-oauth-configuration"

\* The link row and the user row a request has created, if any.
LinksOf(r) == {l \in links : l.id = r.id}
UsersOf(r) == {u \in users : u.id = r.id}
IsLinkOf(l, r, userId) ==
    /\ l.userId = userId
    /\ l.providerId = r.provider
    /\ l.providerUserId = r.profile.id

\* C4: a callback whose identity (provider, providerUserId) has a link
\* updates that link's access and refresh tokens and nothing else, resolves
\* to the link's user, and creates no user and no link.
C4_UpdateStep ==
    \A b \in Browsers :
        (pc[b] = "update" /\ pc'[b] = "token") =>
            /\ users' = users
            /\ {l.id : l \in links'} = {l.id : l \in links}
            /\ \A l \in links : l.id # rq[b].link => l \in links'
            /\ \E l \in links' :
                 /\ l.id = rq[b].link
                 /\ IsLinkOf(l, rq[b], rq[b].user)
                 /\ l.accessToken = rq[b].grant.response.access_token
                 /\ l.refreshToken = rq[b].grant.response.refresh_token
C4_Answer ==
    (HandlerAnswered /\ last.rq.branch = "link") =>
        /\ Linked
        /\ last.res.refreshToken = last.rq.user
        /\ \E l \in links : l.id = last.rq.link /\ IsLinkOf(l, last.rq, last.rq.user)
        /\ last.rq.updated = last.rq.link
        /\ LinksOf(last.rq) = {} /\ UsersOf(last.rq) = {}
        /\ last.rq.newUsers = 0 /\ last.rq.newLinks = 0
C4_ExistingLink == [](C4_Answer) /\ [][C4_UpdateStep]_vars

C4_Witness ==
    /\ HandlerAnswered /\ last.rq.branch = "link" /\ Linked
    /\ \E l \in links : l.id = last.rq.link
                        /\ l.accessToken = last.rq.grant.response.access_token
                        /\ l.accessToken # 0

\* C5: a callback whose identity has no link and whose email is the email
\* of an existing user creates no user; when the store performs the insert
\* it creates exactly one link, attached to that user, and resolves to that
\* user; when the store returns no row it creates no link.
C5_InsertStep ==
    \A b \in Browsers :
        (pc[b] = "insertLink" /\ pc'[b] = "token") =>
            /\ users' = users
            /\ links \subseteq links'
            /\ Cardinality(links' \ links) = 1
            /\ \A l \in links' \ links : IsLinkOf(l, rq[b], rq[b].user)
C5_Answer ==
    (HandlerAnswered /\ last.rq.branch = "email") =>
        /\ \E u \in users : /\ u.id = last.rq.user
                            /\ u.email = last.rq.profile.email
                            /\ u.id # last.rq.id
        /\ UsersOf(last.rq) = {}
        /\ last.rq.newUsers = 0
        /\ last.rq.link = 0
        /\ IF Linked
           THEN /\ last.res.refreshToken = last.rq.user
                /\ last.rq.newLinks = 1
                /\ Cardinality(LinksOf(last.rq)) = 1
                /\ \A l \in LinksOf(last.rq) : IsLinkOf(l, last.rq, last.rq.user)
           ELSE /\ last.rq.newLinks = 0
                /\ LinksOf(last.rq) = {}
C5_EmailMatch == [](C5_Answer) /\ [][C5_InsertStep]_vars

C5_Witness ==
    /\ HandlerAnswered /\ last.rq.branch = "email" /\ Linked
    /\ last.rq.user = 100
    /\ \E l \in LinksOf(last.rq) : l.userId = 100 /\ l.providerUserId = "pu2"

\* C6: a callback whose identity has no link and whose email matches no
\* user creates, when the store performs the insert, exactly one user and
\* exactly one link of that user, the user built from the profile and from
\* the registration options the initiation saved in the session, which is
\* destroyed by then; when the store returns no row it creates neither.
C6_NewUser ==
    (HandlerAnswered /\ last.rq.branch = "create") =>
        /\ last.rq.destroyed /\ last.rq.sid \notin DOMAIN store
        /\ IF Linked
           THEN /\ last.rq.newUsers = 1 /\ last.rq.newLinks = 1
                /\ Cardinality(UsersOf(last.rq)) = 1
                /\ Cardinality(LinksOf(last.rq)) = 1
                /\ last.res.refreshToken = last.rq.id
                /\ \A u \in UsersOf(last.rq) :
                     /\ u.email = last.rq.profile.email
                     /\ u.options = last.rq.loaded.options
                /\ \A l \in LinksOf(last.rq) : IsLinkOf(l, last.rq, last.rq.id)
           ELSE /\ last.rq.newUsers = 0 /\ last.rq.newLinks = 0
                /\ UsersOf(last.rq) = {} /\ LinksOf(last.rq) = {}

\* C7: tie-break.  When the lookup finds a link for the identity, the
\* callback resolves to the user of a link found, whatever user has the
\* profile's email; and no step changes the user or the identity of a link.
C7_LookupStep ==
    \A b \in Browsers :
        (pc[b] = "lookup" /\ pc'[b] # "lookup"
         /\ authUserProviders(rq[b].provider, rq[b].profile.id) # {}) =>
            /\ pc'[b] = "update"
            /\ rq'[b].branch = "link"
            /\ \E l \in authUserProviders(rq[b].provider, rq[b].profile.id) :
                 rq'[b].user = l.userId /\ rq'[b].link = l.id
C7_LinksKeepUser ==
    \A l \in links : \E k \in links' :
        /\ k.id = l.id /\ k.userId = l.userId
        /\ k.providerId = l.providerId /\ k.providerUserId = l.providerUserId
C7_Answer ==
    (HandlerAnswered /\ last.rq.branch = "link") =>
        \E l \in links : l.id = last.rq.link /\ l.userId = last.res.refreshToken
C7_TieBreak == [](C7_Answer) /\ [][C7_LookupStep /\ C7_LinksKeepUser]_vars

C7_Witness ==
    /\ HandlerAnswered /\ last.rq.branch = "link" /\ Linked
    /\ last.res.refreshToken = 101
    /\ \E u \in users : u.email = last.rq.profile.email /\ u.id = 100

\* C8: the pair (providerId, providerUserId) identifies at most one link.
C8_LinkUniqueness ==
    \A l1, l2 \in links :
        (l1.providerId = l2.providerId /\ l1.providerUserId = l2.providerUserId)
            => l1.id = l2.id

\* C9: a callback whose protocol result has a response but no profile ends
\* in Failed(internal-error); its session is destroyed; it creates or
\* updates no user and no link, and no refresh token is issued.
ResponseWithoutProfile(r) ==
    /\ r.grant.provider # ""
    /\ r.grant.response.present
    /\ ~r.grant.response.profile.present
C9_DestroyStep ==
    \A b \in Browsers :
        (pc[b] = "destroy" /\ pc'[b] # "destroy" /\ ResponseWithoutProfile(rq[b])) =>
            /\ pc'[b] = "idle"
            /\ users' = users /\ links' = links /\ issued' = issued
C9_Answer ==
    (HandlerAnswered /\ ResponseWithoutProfile(last.rq)) =>
        /\ FailedWith("internal-error")
        /\ last.rq.destroyed
        /\ last.rq.sid \notin DOMAIN store
        /\ last.res.cookie = "cleared"
        /\ last.rq.branch = ""
        /\ last.rq.newUsers = 0 /\ last.rq.newLinks = 0 /\ last.rq.updated = 0
        /\ UsersOf(last.rq) = {} /\ LinksOf(last.rq) = {}
C9_NoProfile == [](C9_Answer) /\ [][C9_DestroyStep]_vars

C9_Witness ==
    /\ HandlerAnswered /\ last.rq.route = "callback"
    /\ ResponseWithoutProfile(last.rq)
    /\ FailedWith("internal-error")
    /\ last.rq.sid \in DOMAIN consumed
    /\ consumed[last.rq.sid].grant.provider = "linkedin"

\* C10: every request the last middleware takes ends in a redirect, which
\* carries an error code unless it carries a refresh token; when the
\* profile cannot be normalised the redirect is Failed(internal-error).
NormaliseFails(r) ==
    /\ CheckGrant(r.grant) = ""
    /\ ~normaliseProfile(r.provider, r.grant.response).ok
C10_FailuresRedirect ==
    HandlerAnswered =>
        /\ last.res.kind = "redirect"
        /\ last.res.refreshToken = 0 => last.res.error # ""
        /\ NormaliseFails(last.rq) => FailedWith("internal-error")

\* C11: an initiation whose redirect target is no URL fails with
\* invalid-request; no session of the request is in the store, no cookie is
\* set, and neither the provider configuration nor the engine has run.
MalformedTarget(r) == r.route = "initiate" /\ ~IsUrl(r.redirectTo)
C11_MalformedTarget ==
    /\ (Answered /\ MalformedTarget(last.rq)) =>
           /\ last.res.kind = "redirect"
           /\ last.res.error = "invalid-request"
           /\ last.res.cookie # "set"
           /\ last.rq.sid \notin DOMAIN store
           /\ ~last.rq.engine
    /\ \A b \in Browsers : pc[b] = "save" => ~MalformedTarget(rq[b])

\* C12: round trip of the redirect target.  The target an initiation was
\* given is the one its session holds when the engine takes over, and every
\* redirect the last middleware sends for a callback has as its base the
\* target the session held when the callback request arrived.
C12_RoundTrip ==
    /\ (InitiateAnswered /\ last.rq.engine) =>
           /\ last.rq.sid \in DOMAIN store
           /\ store[last.rq.sid].redirectTo = last.rq.redirectTo
    /\ (HandlerAnswered /\ last.rq.route = "callback" /\ last.res.kind = "redirect") =>
           last.res.base = last.rq.loaded.redirectTo

\* C13: every error redirect of an initiation or of the last middleware
\* carries one of the four error codes.
ErrorCodes == {"disabled-endpoint", "invalid-oauth-configuration",
               "invalid-request", "internal-error"}
ErrorRedirect ==
    /\ Answered
    /\ last.res.kind = "redirect"
    /\ last.res.refreshToken = 0
    /\ ~(last.rq.route = "initiate" /\ last.rq.engine)
C13_ErrorCodes == ErrorRedirect => last.res.error \in ErrorCodes

\* C14: session isolation.  A request runs on a session whose identifier
\* was generated for its own browser, and no two requests in flight share
\* one; while a callback waits for its save, its session is in the store as
\* the callback loaded it, whatever the other handshakes did meanwhile; and
\* what its last middleware reads (options, redirect target, protocol
\* result) is what its own request and its own session hold.
OwnSid(b, sid) == (sid - b) % NBrowsers = 0
C14_Isolation ==
    /\ \A b \in Browsers : pc[b] # "idle" => OwnSid(b, rq[b].sid)
    /\ \A b1, b2 \in Browsers :
         (b1 # b2 /\ pc[b1] # "idle" /\ pc[b2] # "idle") => rq[b1].sid # rq[b2].sid
    /\ \A b \in Browsers :
         (pc[b] = "save" /\ rq[b].route = "callback") =>
             /\ rq[b].sid \in DOMAIN store
             /\ store[rq[b].sid] = rq[b].loaded
    /\ \A b \in Browsers :
         (pc[b] = "destroy" /\ rq[b].route = "callback") =>
             /\ rq[b].sid \in DOMAIN store
             /\ store[rq[b].sid].options = rq[b].options
             /\ store[rq[b].sid].redirectTo = rq[b].redirectTo
             /\ store[rq[b].sid].grant.provider = rq[b].grant.provider
             /\ rq[b].grant.provider = rq[b].loaded.grant.provider
             /\ rq[b].grant.response.access_token \in {0, rq[b].id}

C14_Witness ==
    /\ pc[1] = "destroy" /\ rq[1].route = "callback"
    /\ pc[2] = "save" /\ rq[2].route = "callback"
    /\ rq[1].loaded.options # rq[2].loaded.options
    /\ rq[1].grant.response.access_token = rq[1].id

\* C15: a session is retrievable by its identifier from its creation until
\* it is destroyed: every cookie handed out names a stored session unless
\* that session was destroyed, and a session leaves the store only by the
\* destroy of the request that runs on it.  After its destruction the
\* identifier is not found.  Destroy is idempotent: on an identifier that
\* is destroyed or unknown it leaves the store as it is.
C15_Idempotent ==
    \A s \in Sids :
        LET d == destroy(store, s)
        IN /\ s \notin DOMAIN d
           /\ destroy(d, s) = d
           /\ s \notin DOMAIN store => d = store
           /\ \A t \in DOMAIN store \ {s} : t \in DOMAIN d /\ d[t] = store[t]
C15_Retrievable ==
    /\ \A b \in Browsers :
         jar[b] # 0 => (jar[b] \in DOMAIN store \/ jar[b] \in DOMAIN consumed)
    /\ \A s \in DOMAIN consumed : s \notin DOMAIN store
C15_UntilDestroyed ==
    \A s \in DOMAIN store :
        s \notin DOMAIN store' =>
            \E b \in Browsers : pc[b] = "destroy" /\ rq[b].sid = s /\ pc'[b] # "destroy"
Unconfigured(u) ==
    ~ENV_ENABLED[u] /\ ENV_CLIENT_ID[u] = "" /\ ENV_CLIENT_SECRET[u] = ""
C16_DisabledAsUnknown ==
    \A u \in ProviderNames :
        (InitiateAnswered /\ ~ENV_ENABLED[last.rq.provider] /\ Unconfigured(u)) =>
            /\ last.res = sendError(ValidateProvider(u), last.rq.redirectTo,
                                    CookieAtEnd(last.rq.isNew, FALSE))
            /\ last.res.error = "disabled-endpoint"
            /\ ~last.rq.engine

C16_Witness ==
    /\ InitiateAnswered
    /\ last.rq.provider = "twitter"
    /\ ~ENV_ENABLED["twitter"] /\ ENV_CLIENT_ID["twitter"] # ""
    /\ Unconfigured("acme")
    /\ last.res = sendError("disabled-endpoint", "https://app.example/finish", "none")

\* C17: whether or not the store destroys the session, the last middleware
\* goes on from its destroy in the same way: it clears the cookie and either
\* answers the failed check of the grant or goes on to the normalisation,
\* with the same locals; every answer of the last middleware clears the
\* cookie.
C17_DestroyStep ==
    \A b \in Browsers :
        (pc[b] = "destroy" /\ pc'[b] # "destroy") =>
            LET r == [rq[b] EXCEPT !.destroyed = TRUE]
            IN IF CheckGrant(r.grant) # ""
               THEN last' = [browser |-> b, rq |-> r,
                             res |-> sendError("internal-error", r.redirectTo, "cleared")]
               ELSE pc'[b] = "normalise" /\ rq'[b] = r /\ last' = NoLast
C17_Answer == HandlerAnswered => last.rq.destroyed /\ last.res.cookie = "cleared"
C17_DestroyFailure == [](C17_Answer) /\ [][C17_DestroyStep]_vars

C17_Witness ==
    /\ HandlerAnswered /\ last.rq.route = "callback"
    /\ last.rq.sid \in DOMAIN store
    /\ Linked
    /\ last.res.cookie = "cleared"

\* C18: on the email branch, when the store returns no row for the new
\* link, the callback ends in Failed(internal-error) at once: no link is
\* created, no refresh token is obtained and none is sent.
C18_InsertStep ==
    \A b \in Browsers :
        (pc[b] = "insertLink" /\ pc'[b] # "insertLink" /\ links' = links) =>
            /\ pc'[b] = "idle"
            /\ last' = [browser |-> b, rq |-> rq[b],
                        res |-> sendError("internal-error", rq[b].redirectTo, "cleared")]
            /\ issued' = issued
            /\ users' = users
C18_Answer ==
    (HandlerAnswered /\ last.rq.branch = "email" /\ last.rq.newLinks = 0) =>
        /\ FailedWith("internal-error")
        /\ LinksOf(last.rq) = {}
C18_LinkCreationFails == [](C18_Answer) /\ [][C18_InsertStep]_vars

C18_Witness ==
    /\ HandlerAnswered /\ last.rq.branch = "email" /\ last.rq.newLinks = 0
    /\ last.rq.user = 100 /\ 100 \notin issued
    /\ FailedWith("internal-error")

\* C19: a refresh token is obtained and sent only for a user to whom the
\* store, at that point, links the identity (provider, providerUserId) of
\* the callback.
LinkedTo(r, userId) ==
    /\ \E u \in users : u.id = userId
    /\ \E l \in links : IsLinkOf(l, r, userId)
C19_TokenStep ==
    \A b \in Browsers :
        (pc[b] = "token" /\ pc'[b] # "token") =>
            /\ LinkedTo(rq[b], last'.res.refreshToken)
            /\ issued' = issued \cup {last'.res.refreshToken}
C19_Answer ==
    /\ (HandlerAnswered /\ Linked) =>
           /\ LinkedTo(last.rq, last.res.refreshToken)
           /\ last.res.refreshToken \in issued
    /\ \A id \in issued : \E l \in links : l.userId = id
C19_TokenForLinkedUser == [](C19_Answer) /\ [][C19_TokenStep]_vars

C19_Witness ==
    /\ HandlerAnswered /\ Linked
    /\ last.rq.branch = "link" /\ last.rq.link \notin {0, 101}
    /\ last.res.refreshToken = 100
    /\ LinkedTo(last.rq, 100)

\* C20: a request that enters the last middleware with a session that holds
\* no protocol result ends in Failed(internal-error), redirected to the
\* redirect target of the session as loaded or, when there is none, to the
\* client URL; it changes no user and no link and obtains no refresh token.
NoProtocolResult(r) == r.handler /\ ~r.grant.response.present
TargetOf(sess) ==
    IF sess.present /\ sess.redirectTo # "" THEN sess.redirectTo ELSE AUTH_CLIENT_URL
C20_DestroyStep ==
    \A b \in Browsers :
        (pc[b] = "destroy" /\ pc'[b] # "destroy" /\ NoProtocolResult(rq[b])) =>
            /\ pc'[b] = "idle"
            /\ users' = users /\ links' = links /\ issued' = issued
C20_Answer ==
    (Answered /\ NoProtocolResult(last.rq)) =>
        /\ FailedWith("internal-error")
        /\ last.res.base = TargetOf(last.rq.loaded)
        /\ last.rq.branch = ""
        /\ last.rq.newUsers = 0 /\ last.rq.newLinks = 0 /\ last.rq.updated = 0
        /\ UsersOf(last.rq) = {} /\ LinksOf(last.rq) = {}
C20_NoProtocolResult == [](C20_Answer) /\ [][C20_DestroyStep]_vars

C20_Witness ==
    /\ Answered /\ NoProtocolResult(last.rq)
    /\ last.rq.loaded.present /\ last.rq.loaded.grant.provider = "linkedin"
    /\ last.res = sendError("internal-error", "https://app.example/finish", "cleared")
====
